---- MODULE Spec2Model ----
(***************************************************************************)
(* DesktopSpeedMenu (src/components/player/desktop/DesktopSpeedMenu.tsx):  *)
(* a React function component that places a floating speed menu next to    *)
(* its trigger button.  The model keeps the state of one component         *)
(* instance (props of the last render, useState cells, refs, the           *)
(* registered listeners and timers), the host's props and the DOM          *)
(* measurements the code reads.                                            *)
(***************************************************************************)
EXTENDS Integers, Sequences, FiniteSets, TLC

VARIABLES
    hostShow,        \* the host's visibility flag (prop showSpeedMenu as the host holds it)
    hostRotated,     \* the host's rotated flag (prop isRotated as the host holds it)
    containerRef,    \* containerRef.current # null
    geo,             \* the DOM measurements the component reads
    phase,           \* "unmounted" | "mounted" | "detached" (removed, cleanups not yet run)
    showSpeedMenu,   \* prop showSpeedMenu of the last render (what the closures captured)
    isRotated,       \* prop isRotated of the last render
    menuPosition,    \* useState cell menuPosition
    isFullscreen,    \* useState cell isFullscreen
    portal,          \* the menu as last committed to the DOM
    pending,         \* passive effects scheduled by the last commit and not yet run
    syncDue,         \* "no" | "render" | "effects": React's synchronous flush after a click
    effects,         \* the effect instances holding a cleanup
    fsListeners,     \* registered fullscreenchange listeners
    intervals,       \* registered 500 ms intervals
    scrollListeners, \* registered scroll listeners, each the showSpeedMenu it captured
    timeouts,        \* pending 50 ms timeouts, each [id, rot]
    posTag,          \* history: mode menuPosition was computed in; computed since the last close
    lastCalc,        \* history: what the computation that set menuPosition read
    lastOp,          \* history: what the last step did
    doubleRelease,   \* history: a release of something not registered
    error,           \* history: an uncaught exception was raised
    hist             \* history of the open cycles (kept when hist.on)

vars == <<hostShow, hostRotated, containerRef, geo, phase, showSpeedMenu, isRotated,
          menuPosition, isFullscreen, portal, pending, syncDue, effects, fsListeners,
          intervals, scrollListeners, timeouts, posTag, lastCalc, lastOp,
          doubleRelease, error, hist>>

-----------------------------------------------------------------------------
(* Program constants *)

EstimatedMenuHeight == 250
DirectionThreshold == 200
NormalMargin == 10
RotatedMargin == 20
MenuGap == 10

Min(a, b) == IF a < b THEN a ELSE b

\* h * 0.7; every height the model draws is a multiple of 10, so this is exact
SeventyPercent(h) == (h * 7) \div 10

\* `${maxHeight}px`
Px(n) == <<n, "px">>

\* useState initial value of menuPosition
InitialPosition == [top |-> 0, left |-> 0, maxHeight |-> <<"none">>, openUpward |-> FALSE]

-----------------------------------------------------------------------------
(* DOM measurements *)

\* offset-parent chains starting at the trigger button; an element is
\* [offsetTop, offsetLeft, isContainer]; after the last element offsetParent is null
ChainNested == << [offsetTop |-> 10, offsetLeft |-> 5, isContainer |-> FALSE],
                  [offsetTop |-> 40, offsetLeft |-> 20, isContainer |-> FALSE],
                  [offsetTop |-> 7, offsetLeft |-> 3, isContainer |-> TRUE] >>
ChainLow == << [offsetTop |-> 500, offsetLeft |-> 30, isContainer |-> FALSE],
               [offsetTop |-> 90, offsetLeft |-> 60, isContainer |-> TRUE],
               [offsetTop |-> 1000, offsetLeft |-> 1000, isContainer |-> FALSE] >>
ChainOutside == << [offsetTop |-> 100, offsetLeft |-> 10, isContainer |-> FALSE],
                   [offsetTop |-> 50, offsetLeft |-> 15, isContainer |-> FALSE] >>
ChainShort == << [offsetTop |-> 20, offsetLeft |-> 5, isContainer |-> FALSE] >>

ViewportHeights == {800, 200}
ButtonTops == {100, 160, 750}
ButtonHeights == {0, 40}
ContainerHeights == {600, 300}
MenuHeights == {0, 120, 300}
Chains == {ChainNested, ChainLow, ChainOutside, ChainShort}

\* vh: window.innerHeight; bTop/bRight: the button's viewport rectangle
\* (its bottom is bTop + bH); bH/bW: the button's offsetHeight/offsetWidth;
\* cH: the container's offsetHeight; mH: the menu's offsetHeight when mounted
Geoms == [vh : ViewportHeights, bTop : ButtonTops, bRight : {500}, bH : ButtonHeights,
          bW : {48}, chain : Chains, cH : ContainerHeights, mH : MenuHeights]

GeoBottomEdge == [vh |-> 800, bTop |-> 750, bRight |-> 500, bH |-> 0, bW |-> 48,
                  chain |-> ChainNested, cH |-> 600, mH |-> 300]
GeoUpperHalf == [vh |-> 800, bTop |-> 160, bRight |-> 500, bH |-> 40, bW |-> 48,
                 chain |-> ChainLow, cH |-> 600, mH |-> 120]
MainGeoms == {GeoBottomEdge, GeoUpperHalf}

-----------------------------------------------------------------------------
(* calculateMenuPosition *)

\* the guard without its containerRef.current half
RefsAvailableButtonOnly(button, container) == button

\* if (!buttonRef.current || !containerRef.current) return;
RefsAvailable(button, container) == button /\ container

\* menuRef.current?.offsetHeight || estimatedMenuHeight
\* the estimate used whether or not the menu is mounted
ActualMenuHeightEstimateOnly(menuMounted, g) == EstimatedMenuHeight

ActualMenuHeight(menuMounted, g) ==
    IF menuMounted /\ g.mH # 0 THEN g.mH ELSE EstimatedMenuHeight

\* the direction rule with >= for >
OpenUpwardOnTie(spaceAbove, spaceBelow, actualMenuHeight) ==
    /\ spaceBelow < Min(actualMenuHeight, DirectionThreshold)
    /\ spaceAbove >= spaceBelow

\* spaceBelow < Math.min(actualMenuHeight, 200) && spaceAbove > spaceBelow
OpenUpward(spaceAbove, spaceBelow, actualMenuHeight) ==
    /\ spaceBelow < Min(actualMenuHeight, DirectionThreshold)
    /\ spaceAbove > spaceBelow

\* the clamp without Math.min on the upward side
MaxHeightUnclamped(openUpward, spaceAbove, spaceBelow, actualMenuHeight, ceiling) ==
    IF openUpward THEN actualMenuHeight ELSE Min(spaceBelow, ceiling)

\* openUpward ? Math.min(spaceAbove, actualMenuHeight) : Math.min(spaceBelow, ceiling)
MaxHeight(openUpward, spaceAbove, spaceBelow, actualMenuHeight, ceiling) ==
    IF openUpward THEN Min(spaceAbove, actualMenuHeight) ELSE Min(spaceBelow, ceiling)

\* space below measured against the container's height
NormalSpaceBelowInContainer(g) == g.cH - (g.bTop + g.bH) - NormalMargin

\* normal mode: the button's viewport rectangle
NormalSpaceBelow(g) == g.vh - (g.bTop + g.bH) - NormalMargin
NormalSpaceAbove(g) == g.bTop - NormalMargin

NormalPosition(g, menuMounted) ==
    LET spaceBelow == NormalSpaceBelow(g)
        spaceAbove == NormalSpaceAbove(g)
        actual == ActualMenuHeight(menuMounted, g)
        up == OpenUpward(spaceAbove, spaceBelow, actual)
        maxHeight == MaxHeight(up, spaceAbove, spaceBelow, actual, SeventyPercent(g.vh))
    IN  [top |-> IF up THEN g.bTop - MenuGap ELSE (g.bTop + g.bH) + MenuGap,
         left |-> g.bRight,
         maxHeight |-> Px(maxHeight),
         openUpward |-> up]

\* the walk stopping one element late: the container's own offsets are added
RECURSIVE OffsetLoopInclusive(_, _, _, _)
OffsetLoopInclusive(chain, i, top, left) ==
    IF i > Len(chain)
    THEN [top |-> top, left |-> left]
    ELSE IF chain[i].isContainer
    THEN [top |-> top + chain[i].offsetTop, left |-> left + chain[i].offsetLeft]
    ELSE OffsetLoopInclusive(chain, i + 1, top + chain[i].offsetTop,
                             left + chain[i].offsetLeft)

\* while (el && el !== containerRef.current) { top += el.offsetTop; left += el.offsetLeft;
\*                                             el = el.offsetParent }
RECURSIVE OffsetLoop(_, _, _, _)
OffsetLoop(chain, i, top, left) ==
    IF i > Len(chain) \/ chain[i].isContainer
    THEN [top |-> top, left |-> left]
    ELSE OffsetLoop(chain, i + 1, top + chain[i].offsetTop, left + chain[i].offsetLeft)

AccumulatedOffset(g) == OffsetLoop(g.chain, 1, 0, 0)

\* space below measured against the viewport's height
RotatedSpaceBelowInViewport(g) == g.vh - (AccumulatedOffset(g).top + g.bH) - RotatedMargin

\* rotated mode: offsets accumulated up to the container
RotatedSpaceBelow(g) == g.cH - (AccumulatedOffset(g).top + g.bH) - RotatedMargin
RotatedSpaceAbove(g) == AccumulatedOffset(g).top - RotatedMargin

RotatedPosition(g, menuMounted) ==
    LET acc == AccumulatedOffset(g)
        spaceBelow == RotatedSpaceBelow(g)
        spaceAbove == RotatedSpaceAbove(g)
        actual == ActualMenuHeight(menuMounted, g)
        up == OpenUpward(spaceAbove, spaceBelow, actual)
        maxHeight == MaxHeight(up, spaceAbove, spaceBelow, actual, SeventyPercent(g.cH))
    IN  IF up
        THEN [top |-> acc.top - MenuGap, left |-> acc.left + g.bW,
              maxHeight |-> Px(maxHeight), openUpward |-> TRUE]
        ELSE [top |-> acc.top + g.bH + MenuGap, left |-> acc.left + g.bW,
              maxHeight |-> Px(maxHeight), openUpward |-> FALSE]

\* One call of a calculateMenuPosition closure that captured isRotated = rot.
\* "noop": the guard returned; "set": setMenuPosition(pos); "throw": a null
\* reference was dereferenced (the normal branch reads only buttonRef.current,
\* the rotated branch reads containerRef.current too).
calculateMenuPosition(rot, button, container, menuMounted, g) ==
    IF ~RefsAvailable(button, container)
    THEN [status |-> "noop", pos |-> InitialPosition]
    ELSE IF ~button \/ (rot /\ ~container)
    THEN [status |-> "throw", pos |-> InitialPosition]
    ELSE [status |-> "set",
          pos |-> IF rot THEN RotatedPosition(g, menuMounted)
                         ELSE NormalPosition(g, menuMounted)]

NotCalled == [status |-> "none", pos |-> InitialPosition]

-----------------------------------------------------------------------------
(* Render *)

\* (isRotated && containerRef.current) ? containerRef.current : document.body
PortalTarget(rot, container) == IF rot /\ container THEN "container" ELSE "body"

\* style of MenuContent; both branches of the isRotated ternary for top are the same
MenuStyle(rot, pos, vh) ==
    [top |-> IF pos.openUpward THEN <<"auto">> ELSE Px(pos.top),
     bottom |-> IF rot
                THEN (IF pos.openUpward THEN <<"calc(100% - ", pos.top, "px + 10px)">>
                                        ELSE <<"auto">>)
                ELSE (IF pos.openUpward THEN Px(vh - pos.top) ELSE <<"auto">>),
     left |-> Px(pos.left),
     maxHeight |-> pos.maxHeight]

NoPortal == [shown |-> FALSE]

\* {showSpeedMenu && typeof document !== 'undefined' && createPortal(MenuContent, target)}
RenderPortal(show, rot, container, pos, tag, vh) ==
    IF show
    THEN [shown |-> TRUE, target |-> PortalTarget(rot, container), rot |-> rot,
          style |-> MenuStyle(rot, pos, vh), tag |-> tag]
    ELSE NoPortal

\* refs are attached while the element is in the DOM
buttonRef == phase = "mounted"
menuRef == portal.shown

-----------------------------------------------------------------------------
(* The host *)

\* onToggleSpeedMenu: the host flips its visibility flag
onToggleSpeedMenu(show) == ~show


-----------------------------------------------------------------------------
(* History records *)

\* op: the step; asked: it called calculateMenuPosition; refs: both refs were
\* attached at that call; calc: what the call did; calls: invocations of
\* onToggleSpeedMenu; openBefore/shownBefore: the host's flag and the rendered prop
\* before the step; runOpen: the host's flag when the current run of scroll
\* events began; released: listeners and timers the step released; fsEval: the
\* step ran updateFullscreen on the mounted component; native: the value of
\* document.fullscreenElement !== null it read
Idle == [op |-> "idle", asked |-> FALSE, refs |-> FALSE, calc |-> "none", calls |-> 0,
         openBefore |-> FALSE, shownBefore |-> FALSE, runOpen |-> FALSE,
         released |-> 0, fsEval |-> FALSE, native |-> FALSE]
NoCalc == [ran |-> FALSE]
NoEffects == [fullscreen |-> FALSE, scroll |-> FALSE, settle |-> 0]

\* the placement tag after a call of calculateMenuPosition: a computation tags
\* the placement with its mode and makes it fresh; the render that closes the
\* menu makes the stored placement stale
TagAfter(res, rot) ==
    [mode |-> IF res.status = "set" THEN (IF rot THEN "rotated" ELSE "normal")
              ELSE posTag.mode,
     fresh |-> (res.status = "set" \/ posTag.fresh)]

CalcAfter(res, rot) ==
    IF res.status = "set"
    THEN [ran |-> TRUE, rot |-> rot, g |-> geo, menuMounted |-> menuRef,
          acc |-> AccumulatedOffset(geo),
          spaceAbove |-> IF rot THEN RotatedSpaceAbove(geo) ELSE NormalSpaceAbove(geo),
          spaceBelow |-> IF rot THEN RotatedSpaceBelow(geo) ELSE NormalSpaceBelow(geo)]
    ELSE lastCalc

\* setMenuPosition replaces the whole cell
\* a placement computed relative to the stored one
PositionAfterDrift(res) ==
    IF res.status = "set"
    THEN [res.pos EXCEPT !.top = @ + menuPosition.top]
    ELSE menuPosition

PositionAfter(res) == IF res.status = "set" THEN res.pos ELSE menuPosition

\* one call of calculateMenuPosition within an open cycle: whether it stored a
\* placement, whether the menu was mounted, the menu's offsetHeight and the
\* actualMenuHeight used
NoRun == [ran |-> FALSE, mounted |-> FALSE, mH |-> 0, h |-> 0]
RunOf(res) ==
    IF res.status = "set"
    THEN [ran |-> TRUE, mounted |-> menuRef, mH |-> geo.mH,
          h |-> ActualMenuHeight(menuRef, geo)]
    ELSE NoRun

\* the open cycles: click, effect, settle: the calls made by handleToggle, by the
\* settle effect and by its timer in the current cycle; ref: the first placement
\* a settle timer stored under the current geometry and mode; reopens: settle
\* timers that ran after a close and reopen since; closed: a closing render
\* happened since the last settle timer
MaxReopens == 2
NoRef == [has |-> FALSE, pos |-> InitialPosition, rot |-> FALSE]
HistOff == [on |-> FALSE, click |-> NoRun, effect |-> NoRun, settle |-> NoRun,
            ref |-> NoRef, reopens |-> 0, closed |-> FALSE]
HistOn == [HistOff EXCEPT !.on = TRUE]

\* handleToggle ran
HistClick(res) == IF hist.on THEN [hist EXCEPT !.click = RunOf(res)] ELSE hist

\* a render: one that shows the menu begins a cycle (the click that caused it
\* belongs to the cycle), one that hides it ends the cycle
HistRender ==
    IF ~hist.on THEN hist
    ELSE IF ~showSpeedMenu /\ hostShow
    THEN [hist EXCEPT !.click = IF syncDue = "render" THEN @ ELSE NoRun,
                      !.effect = NoRun, !.settle = NoRun]
    ELSE IF showSpeedMenu /\ ~hostShow
    THEN [hist EXCEPT !.closed = TRUE]
    ELSE hist

\* the settle effect's body ran with showSpeedMenu true
HistEffect(ran, res) ==
    IF hist.on /\ ran
    THEN [hist EXCEPT !.effect = RunOf(res), !.settle = NoRun]
    ELSE hist

\* the settle timer of mode rot fired
HistSettle(rot, res) ==
    IF ~hist.on THEN hist
    ELSE IF ~(showSpeedMenu /\ rot = isRotated /\ res.status = "set")
    THEN [hist EXCEPT !.settle = RunOf(res)]
    ELSE IF ~hist.ref.has \/ hist.ref.rot # rot
    THEN [hist EXCEPT !.settle = RunOf(res),
                      !.ref = [has |-> TRUE, pos |-> PositionAfter(res), rot |-> rot],
                      !.reopens = 0, !.closed = FALSE]
    ELSE [hist EXCEPT !.settle = RunOf(res),
                      !.reopens = IF hist.closed THEN Min(@ + 1, MaxReopens) ELSE @,
                      !.closed = FALSE]

\* the geometry changed
HistLayout ==
    IF hist.on THEN [hist EXCEPT !.ref = NoRef, !.reopens = 0, !.closed = FALSE]
    ELSE hist

-----------------------------------------------------------------------------
(* Listeners and timers *)

\* setTimeout returns a handle no pending timer and no effect instance holds
NewTimerId(ts, held) == CHOOSE n \in 1..(Cardinality(ts) + 2) :
                            n # held /\ \A t \in ts : t.id # n

\* clearTimeout(timer): nothing happens when the timer has fired
ClearTimeout(ts, id) == {t \in ts : t.id # id}

\* a settle effect that returns no cleanup
SettleCleanupMissing(ts, id) == ts

\* return () => clearTimeout(timer)
SettleCleanup(ts, id) == ClearTimeout(ts, id)

\* return () => window.removeEventListener('scroll', handleScroll)
ScrollCleanup(ls) == IF ls = <<>> THEN ls ELSE Tail(ls)

\* return () => { document.removeEventListener(...); clearInterval(interval) }
FullscreenCleanup(reg) ==
    [listeners |-> IF reg.listeners > 0 THEN reg.listeners - 1 ELSE 0,
     intervals |-> IF reg.intervals > 0 THEN reg.intervals - 1 ELSE 0]

\* const handleScroll = () => { if (showSpeedMenu) onToggleSpeedMenu() }, run for
\* every registered listener; each captured the showSpeedMenu of its render
RECURSIVE handleScroll(_, _)
handleScroll(ls, acc) ==
    IF ls = <<>> THEN acc
    ELSE handleScroll(Tail(ls),
                      IF Head(ls)
                      THEN [show |-> onToggleSpeedMenu(acc.show), calls |-> acc.calls + 1]
                      ELSE acc)

\* nativeFullscreen || windowFullscreen, where
\* windowFullscreen = containerRef.current?.closest('.is-web-fullscreen') !== null
\* (undefined !== null when containerRef.current is null)
FullscreenValue(native, container, marker) ==
    native \/ (IF container THEN marker ELSE TRUE)


-----------------------------------------------------------------------------
(* Initial state: nothing mounted yet *)

Init ==
    /\ hostShow = FALSE
    /\ hostRotated = FALSE
    /\ containerRef = FALSE
    /\ geo \in MainGeoms
    /\ phase = "unmounted"
    /\ showSpeedMenu = FALSE
    /\ isRotated = FALSE
    /\ menuPosition = InitialPosition
    /\ isFullscreen = FALSE
    /\ portal = NoPortal
    /\ pending = {}
    /\ syncDue = "no"
    /\ effects = NoEffects
    /\ fsListeners = 0
    /\ intervals = 0
    /\ scrollListeners = <<>>
    /\ timeouts = {}
    /\ posTag = [mode |-> "none", fresh |-> FALSE]
    /\ lastCalc = NoCalc
    /\ lastOp = Idle
    /\ doubleRelease = FALSE
    /\ error = FALSE
    /\ hist = HistOff

-----------------------------------------------------------------------------
(* The host and the page *)

\* the host sets the visibility flag itself (hover logic, another control)
HostSetShow ==
    /\ syncDue = "no"
    /\ hostShow' = ~hostShow
    /\ lastOp' = Idle
    /\ UNCHANGED <<hostRotated, containerRef, geo, phase, showSpeedMenu, isRotated,
                   menuPosition, isFullscreen, portal, pending, syncDue, effects,
                   fsListeners, intervals, scrollListeners, timeouts, posTag, lastCalc,
                   doubleRelease, error,
                   hist>>

\* the host changes the rotated flag
HostSetRotated ==
    /\ syncDue = "no"
    /\ hostRotated' = ~hostRotated
    /\ lastOp' = Idle
    /\ UNCHANGED <<hostShow, containerRef, geo, phase, showSpeedMenu, isRotated,
                   menuPosition, isFullscreen, portal, pending, syncDue, effects,
                   fsListeners, intervals, scrollListeners, timeouts, posTag, lastCalc,
                   doubleRelease, error,
                   hist>>

\* the host attaches or detaches the element containerRef points to
SetContainerRef ==
    /\ syncDue = "no"
    /\ containerRef' = ~containerRef
    /\ lastOp' = Idle
    /\ UNCHANGED <<hostShow, hostRotated, geo, phase, showSpeedMenu, isRotated,
                   menuPosition, isFullscreen, portal, pending, syncDue, effects,
                   fsListeners, intervals, scrollListeners, timeouts, posTag, lastCalc,
                   doubleRelease, error,
                   hist>>

\* the page is laid out anew (resize, content change)
Layout ==
    /\ syncDue = "no"
    /\ \E g \in MainGeoms \ {geo} : geo' = g
    /\ lastOp' = Idle
    /\ hist' = HistLayout
    /\ UNCHANGED <<hostShow, hostRotated, containerRef, phase, showSpeedMenu, isRotated,
                   menuPosition, isFullscreen, portal, pending, syncDue, effects,
                   fsListeners, intervals, scrollListeners, timeouts, posTag, lastCalc,
                   doubleRelease, error>>

-----------------------------------------------------------------------------
(* Render and commit *)

\* first render of a new instance: the useState cells take their initial values,
\* every effect is scheduled
Mount ==
    /\ phase = "unmounted"
    /\ phase' = "mounted"
    /\ showSpeedMenu' = hostShow
    /\ isRotated' = hostRotated
    /\ menuPosition' = InitialPosition
    /\ isFullscreen' = FALSE
    /\ posTag' = [mode |-> "none", fresh |-> FALSE]
    /\ lastCalc' = NoCalc
    /\ portal' = RenderPortal(hostShow, hostRotated, containerRef, InitialPosition,
                              posTag', geo.vh)
    /\ pending' = {"fullscreen", "scroll", "settle"}
    /\ lastOp' = Idle
    /\ UNCHANGED <<hostShow, hostRotated, containerRef, geo, syncDue, effects,
                   fsListeners, intervals, scrollListeners, timeouts, doubleRelease,
                   error,
                   hist>>

\* a re-render (new props, new state, or the parent rendering); an effect is
\* scheduled when one of its dependencies changed.  cbChanged: the host passed a
\* new onToggleSpeedMenu function.
Render ==
    /\ phase = "mounted"
    /\ pending = {}
    /\ \E cbChanged \in BOOLEAN :
        pending' = (IF hostShow # showSpeedMenu \/ cbChanged THEN {"scroll"} ELSE {})
                   \cup (IF hostShow # showSpeedMenu \/ hostRotated # isRotated
                         THEN {"settle"} ELSE {})
    /\ showSpeedMenu' = hostShow
    /\ isRotated' = hostRotated
    /\ portal' = RenderPortal(hostShow, hostRotated, containerRef, menuPosition,
                              posTag, geo.vh)
    /\ syncDue' = IF syncDue = "render"
                  THEN (IF pending' # {} THEN "effects" ELSE "no")
                  ELSE syncDue
    /\ posTag' = [posTag EXCEPT !.fresh = posTag.fresh /\ ~(showSpeedMenu /\ ~hostShow)]
    /\ lastOp' = Idle
    /\ hist' = HistRender
    /\ UNCHANGED <<hostShow, hostRotated, containerRef, geo, phase, menuPosition,
                   isFullscreen, effects, fsListeners, intervals, scrollListeners,
                   timeouts, lastCalc, doubleRelease, error>>

\* the passive effects of the last commit: the cleanups of the instances being
\* replaced, then the effect bodies in source order
FlushEffects ==
    /\ phase = "mounted"
    /\ pending # {}
    /\ \E native \in BOOLEAN, marker \in BOOLEAN :
        LET runFs == "fullscreen" \in pending
            runScroll == "scroll" \in pending
            runSettle == "settle" \in pending
            fs0 == [listeners |-> fsListeners, intervals |-> intervals]
            fs1 == IF runFs /\ effects.fullscreen THEN FullscreenCleanup(fs0) ELSE fs0
            sl1 == IF runScroll /\ effects.scroll THEN ScrollCleanup(scrollListeners)
                   ELSE scrollListeners
            to1 == IF runSettle /\ effects.settle # 0
                   THEN SettleCleanup(timeouts, effects.settle) ELSE timeouts
            \* document.addEventListener; setInterval(updateFullscreen, 500)
            fs2 == IF runFs THEN [listeners |-> fs1.listeners + 1,
                                  intervals |-> fs1.intervals + 1]
                   ELSE fs1
            \* if (!showSpeedMenu) return; window.addEventListener('scroll', handleScroll)
            sl2 == IF runScroll /\ showSpeedMenu THEN Append(sl1, showSpeedMenu) ELSE sl1
            \* if (showSpeedMenu) { calculateMenuPosition(); setTimeout(..., 50) }
            res == IF runSettle /\ showSpeedMenu
                   THEN calculateMenuPosition(isRotated, buttonRef, containerRef,
                                              menuRef, geo)
                   ELSE NotCalled
            id == NewTimerId(to1, 0)
            to2 == IF runSettle /\ showSpeedMenu
                   THEN to1 \cup {[id |-> id, rot |-> isRotated]} ELSE to1
        IN  /\ fsListeners' = fs2.listeners
            /\ intervals' = fs2.intervals
            /\ scrollListeners' = sl2
            /\ timeouts' = to2
            /\ effects' = [fullscreen |-> runFs \/ effects.fullscreen,
                           scroll |-> IF runScroll THEN showSpeedMenu ELSE effects.scroll,
                           settle |-> IF runSettle
                                      THEN (IF showSpeedMenu THEN id ELSE 0)
                                      ELSE effects.settle]
            \* updateFullscreen() at the end of the fullscreen effect
            /\ isFullscreen' = IF runFs THEN FullscreenValue(native, containerRef, marker)
                               ELSE isFullscreen
            /\ menuPosition' = PositionAfter(res)
            /\ posTag' = TagAfter(res, isRotated)
            /\ lastCalc' = CalcAfter(res, isRotated)
            /\ error' = (error \/ res.status = "throw")
            /\ doubleRelease' = (doubleRelease
                                 \/ (runFs /\ effects.fullscreen
                                     /\ (fsListeners = 0 \/ intervals = 0))
                                 \/ (runScroll /\ effects.scroll /\ scrollListeners = <<>>))
            /\ hist' = HistEffect(runSettle /\ showSpeedMenu, res)
            /\ lastOp' = [Idle EXCEPT !.op = "effects",
                                      !.asked = runSettle /\ showSpeedMenu,
                                      !.refs = buttonRef /\ containerRef,
                                      !.calc = res.status,
                                      !.openBefore = hostShow,
                                      !.shownBefore = showSpeedMenu,
                                      !.fsEval = runFs,
                                      !.native = runFs /\ native]
    /\ pending' = {}
    /\ syncDue' = IF syncDue = "effects" THEN "no" ELSE syncDue
    /\ UNCHANGED <<hostShow, hostRotated, containerRef, geo, phase, showSpeedMenu,
                   isRotated, portal>>

\* the component is removed: the DOM nodes go and the refs are detached at commit;
\* the effect cleanups run later
Unmount ==
    /\ phase = "mounted"
    /\ pending = {}
    /\ syncDue = "no"
    /\ phase' = "detached"
    /\ portal' = NoPortal
    /\ lastOp' = Idle
    /\ UNCHANGED <<hostShow, hostRotated, containerRef, geo, showSpeedMenu, isRotated,
                   menuPosition, isFullscreen, pending, syncDue, effects, fsListeners,
                   intervals, scrollListeners, timeouts, posTag, lastCalc,
                   doubleRelease, error,
                   hist>>

\* the cleanups of every effect instance of the removed component
Cleanup ==
    /\ phase = "detached"
    /\ LET fs0 == [listeners |-> fsListeners, intervals |-> intervals]
           fs1 == IF effects.fullscreen THEN FullscreenCleanup(fs0) ELSE fs0
           sl1 == IF effects.scroll THEN ScrollCleanup(scrollListeners)
                  ELSE scrollListeners
           to1 == IF effects.settle # 0 THEN SettleCleanup(timeouts, effects.settle)
                  ELSE timeouts
       IN  /\ fsListeners' = fs1.listeners
           /\ intervals' = fs1.intervals
           /\ scrollListeners' = sl1
           /\ timeouts' = to1
           /\ doubleRelease' = (doubleRelease
                                \/ (effects.fullscreen /\ (fsListeners = 0 \/ intervals = 0))
                                \/ (effects.scroll /\ scrollListeners = <<>>))
           /\ lastOp' = [Idle EXCEPT !.op = "cleanup",
                                     !.released = (fsListeners - fs1.listeners)
                                                  + (intervals - fs1.intervals)
                                                  + (Len(scrollListeners) - Len(sl1))
                                                  + (Cardinality(timeouts)
                                                     - Cardinality(to1))]
    /\ phase' = "unmounted"
    /\ effects' = NoEffects
    /\ UNCHANGED <<hostShow, hostRotated, containerRef, geo, showSpeedMenu, isRotated,
                   menuPosition, isFullscreen, portal, pending, syncDue, posTag,
                   lastCalc, error,
                   hist>>


-----------------------------------------------------------------------------
(* Event handlers and timer callbacks *)

\* onClick={handleToggle}: if (!showSpeedMenu) calculateMenuPosition();
\* onToggleSpeedMenu().  The closure is the one of the last render.  React
\* re-renders and runs the resulting effects before the next event.
handleToggle ==
    /\ phase = "mounted"
    /\ syncDue = "no"
    /\ LET res == IF ~showSpeedMenu
                  THEN calculateMenuPosition(isRotated, buttonRef, containerRef,
                                             menuRef, geo)
                  ELSE NotCalled
           thrown == res.status = "throw"
           show == IF thrown THEN hostShow ELSE onToggleSpeedMenu(hostShow)
       IN  /\ hostShow' = show
           /\ menuPosition' = PositionAfter(res)
           /\ posTag' = TagAfter(res, isRotated)
           /\ lastCalc' = CalcAfter(res, isRotated)
           /\ error' = (error \/ thrown)
           /\ hist' = HistClick(res)
           /\ lastOp' = [Idle EXCEPT !.op = "click", !.asked = ~showSpeedMenu,
                                     !.refs = buttonRef /\ containerRef,
                                     !.calc = res.status,
                                     !.calls = IF thrown THEN 0 ELSE 1,
                                     !.openBefore = hostShow,
                                     !.shownBefore = showSpeedMenu]
    /\ syncDue' = "render"
    /\ UNCHANGED <<hostRotated, containerRef, geo, phase, showSpeedMenu, isRotated,
                   isFullscreen, portal, pending, effects, fsListeners, intervals,
                   scrollListeners, timeouts, doubleRelease>>

\* a scroll event: every registered scroll listener runs
ScrollEvent ==
    /\ scrollListeners # <<>>
    /\ syncDue = "no"
    /\ LET out == handleScroll(scrollListeners, [show |-> hostShow, calls |-> 0])
       IN  /\ hostShow' = out.show
           /\ lastOp' = [Idle EXCEPT !.op = "scroll", !.calls = out.calls,
                                     !.runOpen = IF lastOp.op = "scroll"
                                                 THEN lastOp.runOpen ELSE hostShow,
                                     !.openBefore = hostShow,
                                     !.shownBefore = showSpeedMenu]
    /\ UNCHANGED <<hostRotated, containerRef, geo, phase, showSpeedMenu, isRotated,
                   menuPosition, isFullscreen, portal, pending, syncDue, effects,
                   fsListeners, intervals, scrollListeners, timeouts, posTag, lastCalc,
                   doubleRelease, error,
                   hist>>

\* setTimeout(calculateMenuPosition, 50) fires: the closure of the render that
\* scheduled it runs
SettleTimerFire ==
    /\ syncDue = "no"
    /\ \E t \in timeouts :
        LET res == calculateMenuPosition(t.rot, buttonRef, containerRef, menuRef, geo)
        IN  /\ timeouts' = timeouts \ {t}
            /\ menuPosition' = PositionAfter(res)
            /\ posTag' = TagAfter(res, t.rot)
            /\ lastCalc' = CalcAfter(res, t.rot)
            /\ error' = (error \/ res.status = "throw")
            /\ hist' = HistSettle(t.rot, res)
            /\ lastOp' = [Idle EXCEPT !.op = "settle", !.asked = TRUE,
                                      !.refs = buttonRef /\ containerRef,
                                      !.calc = res.status,
                                      !.openBefore = hostShow,
                                      !.shownBefore = showSpeedMenu]
    /\ UNCHANGED <<hostShow, hostRotated, containerRef, geo, phase, showSpeedMenu,
                   isRotated, isFullscreen, portal, pending, syncDue, effects,
                   fsListeners, intervals, scrollListeners, doubleRelease>>

\* updateFullscreen; setIsFullscreen does nothing once the component is removed
updateFullscreen ==
    /\ \E native \in BOOLEAN, marker \in BOOLEAN :
        /\ isFullscreen' = IF phase = "mounted"
                           THEN FullscreenValue(native, containerRef, marker)
                           ELSE isFullscreen
        /\ lastOp' = [Idle EXCEPT !.op = "fullscreen", !.fsEval = (phase = "mounted"),
                                  !.native = native]
    /\ UNCHANGED <<hostShow, hostRotated, containerRef, geo, phase, showSpeedMenu,
                   isRotated, menuPosition, portal, pending, syncDue, effects,
                   fsListeners, intervals, scrollListeners, timeouts, posTag, lastCalc,
                   doubleRelease, error,
                   hist>>

\* setInterval(updateFullscreen, 500) ticks
PollTick ==
    /\ intervals > 0
    /\ syncDue = "no"
    /\ updateFullscreen

\* document 'fullscreenchange'
FullscreenChange ==
    /\ fsListeners > 0
    /\ syncDue = "no"
    /\ updateFullscreen

-----------------------------------------------------------------------------

Next ==
    \/ HostSetShow
    \/ HostSetRotated
    \/ SetContainerRef
    \/ Layout
    \/ Mount
    \/ Render
    \/ FlushEffects
    \/ Unmount
    \/ Cleanup
    \/ handleToggle
    \/ ScrollEvent
    \/ SettleTimerFire
    \/ PollTick
    \/ FullscreenChange

Spec == Init /\ [][Next]_vars


-----------------------------------------------------------------------------
(* The placement computation on its own: a mounted component with the container *)
(* attached, over every drawn geometry, driven by the trigger, the settle timer *)
(* and the rotated flag                                                         *)

InitCalc ==
    /\ hostShow = FALSE
    /\ hostRotated \in BOOLEAN
    /\ containerRef = TRUE
    /\ geo \in Geoms
    /\ phase = "mounted"
    /\ showSpeedMenu = FALSE
    /\ isRotated = hostRotated
    /\ menuPosition = InitialPosition
    /\ isFullscreen = FALSE
    /\ portal = NoPortal
    /\ pending = {}
    /\ syncDue = "no"
    /\ effects = [fullscreen |-> TRUE, scroll |-> FALSE, settle |-> 0]
    /\ fsListeners = 1
    /\ intervals = 1
    /\ scrollListeners = <<>>
    /\ timeouts = {}
    /\ posTag = [mode |-> "none", fresh |-> FALSE]
    /\ lastCalc = NoCalc
    /\ lastOp = Idle
    /\ doubleRelease = FALSE
    /\ error = FALSE
    /\ hist = HistOff

NextCalc ==
    \/ handleToggle
    \/ Render
    \/ FlushEffects
    \/ SettleTimerFire
    \/ HostSetRotated

CalcSpec == InitCalc /\ [][NextCalc]_vars

-----------------------------------------------------------------------------
(* Open cycles: a mounted component with the container attached, opened and  *)
(* closed by the trigger, the host and scroll events, with the history of    *)
(* each cycle's computations kept                                            *)

\* a menu whose offsetHeight reads 0
GeoUnmeasured == [GeoUpperHalf EXCEPT !.mH = 0]
CycleGeoms == MainGeoms \cup {GeoUnmeasured}

InitCycle ==
    /\ hostShow = FALSE
    /\ hostRotated \in BOOLEAN
    /\ containerRef = TRUE
    /\ geo \in CycleGeoms
    /\ phase = "mounted"
    /\ showSpeedMenu = FALSE
    /\ isRotated = hostRotated
    /\ menuPosition = InitialPosition
    /\ isFullscreen = FALSE
    /\ portal = NoPortal
    /\ pending = {}
    /\ syncDue = "no"
    /\ effects = [fullscreen |-> TRUE, scroll |-> FALSE, settle |-> 0]
    /\ fsListeners = 1
    /\ intervals = 1
    /\ scrollListeners = <<>>
    /\ timeouts = {}
    /\ posTag = [mode |-> "none", fresh |-> FALSE]
    /\ lastCalc = NoCalc
    /\ lastOp = Idle
    /\ doubleRelease = FALSE
    /\ error = FALSE
    /\ hist = HistOn

NextCycle ==
    \/ handleToggle
    \/ HostSetShow
    \/ HostSetRotated
    \/ Layout
    \/ Render
    \/ FlushEffects
    \/ ScrollEvent
    \/ SettleTimerFire

CycleSpec == InitCycle /\ [][NextCycle]_vars


-----------------------------------------------------------------------------
(* Claims *)

\* C1: from every Open state, after any number of scroll events delivered before
\* the component re-renders, the menu is Closed.
C1_ScrollLeavesClosed ==
    (lastOp.op = "scroll" /\ lastOp.runOpen) => ~hostShow

\* C2: a trigger click from Closed computes placement and opens; a trigger click
\* from Open closes without a placement computation; either way the toggle
\* callback is invoked exactly once.
C2_ToggleTransitions ==
    lastOp.op = "click" =>
        /\ lastOp.calls = 1
        /\ ~lastOp.openBefore => (lastOp.asked /\ hostShow)
        /\ lastOp.openBefore => (~lastOp.asked /\ ~hostShow)

\* what the computation that set menuPosition read
ReadSpaceAbove ==
    IF lastCalc.rot THEN RotatedSpaceAbove(lastCalc.g) ELSE NormalSpaceAbove(lastCalc.g)
ReadSpaceBelow ==
    IF lastCalc.rot THEN RotatedSpaceBelow(lastCalc.g) ELSE NormalSpaceBelow(lastCalc.g)
ReadActualHeight ==
    IF lastCalc.menuMounted /\ lastCalc.g.mH # 0 THEN lastCalc.g.mH ELSE 250
ReadExtent == IF lastCalc.rot THEN lastCalc.g.cH ELSE lastCalc.g.vh

\* C3: in both modes a placement computation sets openUpward to true if and only
\* if spaceBelow < min(actualHeight, 200) and spaceAbove > spaceBelow, where
\* actualHeight is the measured menu height when non-zero and 250 otherwise.
C3_OpenUpwardRule ==
    lastCalc.ran =>
        (menuPosition.openUpward <=>
            (/\ ReadSpaceBelow < ReadActualHeight
             /\ ReadSpaceBelow < 200
             /\ ReadSpaceAbove > ReadSpaceBelow))

\* a rotated-mode computation with a measured menu height opened upward
C3_Witness ==
    /\ lastCalc.ran
    /\ lastCalc.rot
    /\ lastCalc.menuMounted
    /\ lastCalc.g.mH # 0
    /\ menuPosition.openUpward

\* C4: maxHeight never exceeds the available space of the chosen side, and when
\* opening downward never exceeds 70% of the viewport (Normal) or container
\* (Rotated) height.
C4_MaxHeightClamped ==
    lastCalc.ran =>
        /\ menuPosition.maxHeight[2] = "px"
        /\ menuPosition.openUpward => menuPosition.maxHeight[1] <= ReadSpaceAbove
        /\ ~menuPosition.openUpward =>
            /\ menuPosition.maxHeight[1] <= ReadSpaceBelow
            /\ 10 * menuPosition.maxHeight[1] <= 7 * ReadExtent

\* an upward placement of a menu taller than the space above: that space is the clamp
C4_Witness ==
    /\ lastCalc.ran
    /\ menuPosition.openUpward
    /\ ReadSpaceAbove < ReadActualHeight
    /\ menuPosition.maxHeight = Px(ReadSpaceAbove)

\* C5: whenever the menu is rendered, its injection target is the anchor
\* container in Rotated mode and the document root in Normal mode.
C5_TargetByMode ==
    portal.shown => portal.target = (IF portal.rot THEN "container" ELSE "body")

\* C6: in Rotated mode the menu is never rendered at a target other than the
\* anchor container; while the container is unavailable it is not rendered.
C6_NeverOffContainer ==
    ~(portal.shown /\ portal.rot /\ portal.target # "container")

\* C7: every render of the menu uses a placement computed under the same mode as
\* the one that selects the portal target and the top/bottom style of that
\* render.
C7_OneModePerRender ==
    (portal.shown /\ portal.tag.mode # "none") =>
        portal.tag.mode = (IF portal.rot THEN "rotated" ELSE "normal")

\* C8: the menu is rendered only while Open, and a render never uses a placement
\* stored during an earlier open cycle.
C8_NoStalePlacement ==
    portal.shown =>
        /\ showSpeedMenu
        /\ portal.tag.mode # "none" => portal.tag.fresh

\* C9: a placement computation requested while the trigger or the container
\* reference is unavailable leaves menuPosition unchanged and raises no error.
C9_NoRefsNoOp ==
    [][(lastOp'.asked /\ ~lastOp'.refs) =>
            (menuPosition' = menuPosition /\ ~error')]_vars

\* a computation was requested without the references while an earlier
\* placement was stored, from the settle timer with the trigger detached
C9_Witness ==
    /\ lastOp.op = "settle"
    /\ lastOp.asked
    /\ ~lastOp.refs
    /\ phase = "detached"
    /\ posTag.mode # "none"
    /\ menuPosition # InitialPosition

\* C10: after teardown no fullscreen-change listener, scroll listener, poll
\* timer or settle timer remains registered, and none was released twice.
C10_TeardownReleasesAll ==
    phase = "unmounted" =>
        /\ fsListeners = 0
        /\ intervals = 0
        /\ scrollListeners = <<>>
        /\ timeouts = {}
        /\ ~doubleRelease

\* teardown of an Open menu released both listeners and both timers
C10_Witness ==
    /\ phase = "unmounted"
    /\ lastOp.op = "cleanup"
    /\ lastOp.released = 4


\* the last computation did not use a measured menu height
ReadUnmeasured == ~(lastCalc.menuMounted /\ lastCalc.g.mH # 0)

\* C12: in Normal mode spaceBelow = viewportHeight - trigger.bottom - 10 and
\* spaceAbove = trigger.top - 10, whatever the container geometry; with an
\* unmeasured menu and viewport height 800, top = bottom = 750 gives
\* openUpward = true, maxHeight = 250, and bottom = 200 gives openUpward = false,
\* maxHeight = 560.
C12_NormalSpaces ==
    (lastCalc.ran /\ ~lastCalc.rot) =>
        /\ lastCalc.spaceBelow = lastCalc.g.vh - (lastCalc.g.bTop + lastCalc.g.bH) - 10
        /\ lastCalc.spaceAbove = lastCalc.g.bTop - 10
        /\ (/\ lastCalc.g.vh = 800 /\ lastCalc.g.bTop = 750 /\ lastCalc.g.bH = 0
            /\ ReadUnmeasured)
           => (/\ lastCalc.spaceBelow = 40 /\ lastCalc.spaceAbove = 740
               /\ menuPosition.openUpward /\ menuPosition.maxHeight = <<250, "px">>)
        /\ (/\ lastCalc.g.vh = 800 /\ lastCalc.g.bTop + lastCalc.g.bH = 200
            /\ ReadUnmeasured)
           => (/\ lastCalc.spaceBelow = 590
               /\ ~menuPosition.openUpward /\ menuPosition.maxHeight = <<560, "px">>)

\* scenario A was computed: viewport 800, trigger at 750, unmeasured menu
C12_Witness ==
    /\ lastCalc.ran
    /\ ~lastCalc.rot
    /\ lastCalc.g.vh = 800
    /\ lastCalc.g.bTop = 750
    /\ lastCalc.g.bH = 0
    /\ ReadUnmeasured
    /\ menuPosition.openUpward

\* C13: in Rotated mode spaceBelow = containerHeight - (accumulatedTop +
\* triggerHeight) - 20 and spaceAbove = accumulatedTop - 20, whatever the viewport;
\* container height 600, accumulated top 50 and trigger height 40 give
\* spaceBelow = 490, spaceAbove = 30 and openUpward = false.
C13_RotatedSpaces ==
    (lastCalc.ran /\ lastCalc.rot) =>
        /\ lastCalc.spaceBelow
             = lastCalc.g.cH - (lastCalc.acc.top + lastCalc.g.bH) - 20
        /\ lastCalc.spaceAbove = lastCalc.acc.top - 20
        /\ (lastCalc.g.cH = 600 /\ lastCalc.acc.top = 50 /\ lastCalc.g.bH = 40)
           => (/\ lastCalc.spaceBelow = 490 /\ lastCalc.spaceAbove = 30
               /\ ~menuPosition.openUpward)

\* scenario C was computed, in a viewport shorter than the container
C13_Witness ==
    /\ lastCalc.ran
    /\ lastCalc.rot
    /\ lastCalc.g.cH = 600
    /\ lastCalc.acc.top = 50
    /\ lastCalc.g.bH = 40
    /\ lastCalc.g.vh = 200

\* index of the container on a chain, or one past its end
ContainerIndex(chain) ==
    IF \E i \in 1..Len(chain) : chain[i].isContainer
    THEN CHOOSE i \in 1..Len(chain) :
            chain[i].isContainer /\ \A j \in 1..(i - 1) : ~chain[j].isContainer
    ELSE Len(chain) + 1

RECURSIVE SumOffsetTop(_, _)
SumOffsetTop(chain, n) ==
    IF n = 0 THEN 0 ELSE chain[n].offsetTop + SumOffsetTop(chain, n - 1)

RECURSIVE SumOffsetLeft(_, _)
SumOffsetLeft(chain, n) ==
    IF n = 0 THEN 0 ELSE chain[n].offsetLeft + SumOffsetLeft(chain, n - 1)

\* C18: in Rotated mode the accumulated (top, left) is the sum of offsetTop and
\* offsetLeft over the trigger and every element of its offset-parent chain before
\* the anchor container; the container's own offsets are not included.
C18_OffsetAccumulation ==
    (lastCalc.ran /\ lastCalc.rot) =>
        LET n == ContainerIndex(lastCalc.g.chain) - 1
        IN  /\ lastCalc.acc.top = SumOffsetTop(lastCalc.g.chain, n)
            /\ lastCalc.acc.left = SumOffsetLeft(lastCalc.g.chain, n)
            /\ menuPosition.left = SumOffsetLeft(lastCalc.g.chain, n) + lastCalc.g.bW

\* a computation over a chain that goes on above the container
C18_Witness ==
    /\ lastCalc.ran
    /\ lastCalc.rot
    /\ lastCalc.g.chain = ChainLow
    /\ lastCalc.acc = [top |-> 500, left |-> 30]


\* C14: at most one scroll listener is registered, none is registered while the
\* menu is Closed once the close has been rendered and its effects have run, and a
\* scroll event delivered while Closed never invokes the toggle callback.
C14_ScrollListenerOnlyWhileOpen ==
    /\ Len(scrollListeners) <= 1
    /\ (phase = "mounted" /\ pending = {} /\ ~showSpeedMenu) => scrollListeners = <<>>
    /\ (lastOp.op = "scroll" /\ ~lastOp.openBefore) => lastOp.calls = 0

\* C16: the settle timer recomputes the placement only while the menu is Open, and
\* at most one settle timer is pending.
C16_SettleOnlyWhileOpen ==
    /\ Cardinality(timeouts) <= 1
    /\ (lastOp.op = "settle" /\ lastOp.calc = "set") => lastOp.shownBefore

\* C17: an evaluation of the fullscreen state (mount, fullscreen-change or poll)
\* with the container reference absent and no native fullscreen element leaves
\* FullscreenState false.
C17_NoContainerNotFullscreen ==
    (lastOp.fsEval /\ ~containerRef /\ ~lastOp.native) => ~isFullscreen

\* C19: no settle timer runs a computation in a mode different from the current
\* rotated flag.
C19_SettleInCurrentMode ==
    (lastOp.op = "settle" /\ lastOp.calc = "set") => lastCalc.rot = isRotated


\* the settle timer has just stored a placement with the menu rendered Open
ReadSettled ==
    /\ hist.on
    /\ lastOp.op = "settle"
    /\ lastOp.calc = "set"
    /\ lastOp.shownBefore

\* C11: with geometry, mode and menu height unchanged, the placement the settle
\* timer stores after each close and reopen is the one it stored before the
\* first close.
C11_ReopenSamePlacement ==
    (ReadSettled /\ lastCalc.rot = isRotated /\ hist.ref.has /\ hist.ref.rot = isRotated)
        => menuPosition = hist.ref.pos

\* the menu was closed and reopened twice and the settle timer ran each time,
\* correcting the placement the click had estimated
C11_Witness ==
    /\ ReadSettled
    /\ hist.reopens = 2
    /\ hist.ref.has
    /\ hist.ref.rot = isRotated
    /\ hist.click.ran
    /\ hist.click.h # hist.settle.h
    /\ menuPosition.maxHeight = <<300, "px">>

\* the height a mounted menu measuring mH yields
ReadMeasured(mH) == IF mH # 0 THEN mH ELSE 250

\* C15 as stated: each time the menu enters Open the placement is computed twice,
\* first with the estimated height 250, the menu not being mounted, then by the
\* settle timer with the measured height.
C15_ComputedTwice ==
    (ReadSettled /\ lastOp.openBefore) =>
        /\ hist.click.ran # hist.effect.ran
        /\ LET first == IF hist.click.ran THEN hist.click ELSE hist.effect
           IN  ~first.mounted /\ first.h = 250
        /\ hist.settle.mounted
        /\ hist.settle.h = ReadMeasured(hist.settle.mH)

\* C15 amended: when the settle timer fires in an Open menu, the settle effect
\* has computed the placement right after the Open render and the timer
\* computes it again, both with the menu mounted and its measured height (250
\* when it measures 0); a click that opened the menu computed it before them
\* with the estimate 250, the menu not being mounted.
C15_EstimateThenMeasuredTwice ==
    (ReadSettled /\ lastOp.openBefore) =>
        /\ hist.effect.ran
        /\ hist.effect.mounted
        /\ hist.effect.h = ReadMeasured(hist.effect.mH)
        /\ hist.settle.ran
        /\ hist.settle.mounted
        /\ hist.settle.h = ReadMeasured(hist.settle.mH)
        /\ hist.click.ran => (~hist.click.mounted /\ hist.click.h = 250)

\* a click opened the menu: three computations, with 250, 300 and 300
C15_Witness ==
    /\ ReadSettled
    /\ lastOp.openBefore
    /\ hist.click.ran
    /\ hist.click.h = 250
    /\ hist.effect.h = 300
    /\ hist.settle.h = 300


====
